---- MODULE Spec2Model ----
(***************************************************************************)
(* State-machine model of gst-thumbnailers (src/src/lib.rs).               *)
(*                                                                         *)
(* One thumbnail request (get_audio_thumbnail_source or                    *)
(* get_video_thumbnail_source) runs against one GStreamer pipeline.  The   *)
(* pipeline is the environment: it calls the pad-added closure on its      *)
(* streaming thread, posts messages on the bus, and answers seeks and      *)
(* frame pulls.  The control loop of the request is the program.           *)
(***************************************************************************)
EXTENDS Integers, Sequences, FiniteSets, TLC

VARIABLES
    req,                 \* which entry point runs: "audio" or "video"
    pc,                  \* position of the control loop
    pipeline,            \* Pipeline wrapper: [state, dropped]
    bus,                 \* messages posted by the pipeline, not yet popped
    srcPrerolled,        \* the source has posted the AsyncDone/Error ending its preroll
    source,              \* the media source: [streams, tags, frames, durations]
    tagsPosted,          \* number of tag lists of the source posted so far
    padsAdded,           \* number of pad-added callbacks that have run
    source_link_status,  \* Arc<Mutex<Result<()>>> shared with the pad-added closure
    linkedPad,           \* stream linked to the sink pad (0: sink pad not linked)
    capsFrom,            \* stream whose size was last written to the capsfilter (0: none)
    duration,            \* let duration
    seek_at,             \* let seek_at
    seekIdx,             \* position of `for percentage in seek_at`
    lastSeek,            \* the last seek_simple call: [issued, pos, ok]
    nSeeks,              \* number of seek_simple calls issued on the session
    nPulls,              \* number of pull_preroll calls issued on the session
    samples,             \* let mut samples
    stale,               \* while a seek is waited for: messages at the head of the
                         \* bus that were posted before that seek was issued
    result,              \* what the request returned
    stateChange,         \* what pipeline.set_state(Paused) answered ("": not called)
    dims,                \* arguments of a scale_thumbnail_dimensions call
    thumb,               \* what that call returned
    frame,               \* a video frame: [width, height, stride, data]
    pix,                 \* what variance and the de-striding made of the frame
    process,             \* what main_*_thumbnailer returned and the output file
    linkChecked          \* a StreamsSelected message found source_link_status Ok

vars == <<req, pc, pipeline, bus, srcPrerolled, source, tagsPosted, padsAdded,
          source_link_status, linkedPad, capsFrom, duration, seek_at, seekIdx,
          lastSeek, nSeeks, nPulls, samples, stale, result, stateChange, dims, thumb,
          frame, pix, process, linkChecked>>

\* the inputs and results of the pure functions
pureVars == <<dims, thumb, frame, pix>>

----------------------------------------------------------------------------
(* Bounds of the model *)

\* most messages in flight on the bus
MaxBus == 2
\* most tag lists a source posts
MaxTagEvents == 2
\* most images a source carries, over all its tag lists
MaxImages == 2
\* most streams (pads) a source exposes
MaxPads == 2
\* frame scores (variance) range over 0..MaxVar
MaxVar == 1
\* largest width and height of an image to be scaled
MaxSide == 48
\* largest thumbnail size asked for
MaxSize == 8
\* most bytes of the buffer of a frame
MaxBytes == 8
\* most padding bytes at the end of a row of a frame
MaxPadding == 1

----------------------------------------------------------------------------
(* Values *)

\* gst::ClockTime units per second (nanoseconds in GStreamer; milliseconds
\* here so that duration * percentage stays inside TLC's integers)
SECOND == 1000

\* `180.seconds()`
LongVideoThreshold == 180 * SECOND

\* seek_at for long videos
SeekAtLong == <<10, 15, 20, 25, 30>>

\* seek_at for short videos
SeekAtShort == <<10, 20, 30, 60, 90>>

\* an answer of query_duration: Some(d), or None
Known(d) == [known |-> TRUE, d |-> d]

Unknown == [known |-> FALSE, d |-> 0]

\* durations query_duration may report
Durations == {0, 1, 60 * SECOND, LongVideoThreshold - 1, LongVideoThreshold,
              LongVideoThreshold + 1, 200 * SECOND, 2 * LongVideoThreshold}

StreamTypes == {"audio", "video"}

\* classification of one tag image as get_thumbnail_from_tag sees it:
\*   "NoCaps"     sample.caps() is None
\*   "FrontCover" image-type = Some(3)
\*   "Undefined"  image-type = Some(1)
\*   "Absent"     image-type = None (no such field, or not an i32)
\*   "Other"      image-type = Some(n), n not in {1, 3}
ImageTypes == {"NoCaps", "FrontCover", "Undefined", "Absent", "Other"}

SeqsUpTo(S, n) == UNION {[1..k -> S] : k \in 0..n}

\* the tag images of a source, in order
TagLists == SeqsUpTo(ImageTypes, MaxImages)

RECURSIVE Sum(_)
Sum(lens) == IF lens = <<>> THEN 0 ELSE Head(lens) + Sum(Tail(lens))

\* the images cut into consecutive tag lists of the given lengths
RECURSIVE Split(_, _)
Split(images, lens) ==
    IF lens = <<>> THEN <<>>
    ELSE <<SubSeq(images, 1, Head(lens))>> \o
         Split(SubSeq(images, Head(lens) + 1, Len(images)), Tail(lens))

\* every way a source may spread its images over its tag lists (a tag list
\* may be empty)
TagScripts ==
    {Split(images, lens) :
        <<images, lens>> \in {x \in TagLists \X SeqsUpTo(0..MaxImages, MaxTagEvents) :
                                Sum(x[2]) = Len(x[1])}}

\* a bus message; ev numbers the tag lists (0 for every other message)
Msg(t, imgs, n) == [type |-> t, images |-> imgs, ev |-> n]

\* a pulled sample: whether filter_map can read it, and its variance
Frames == {[readable |-> FALSE, var |-> 0]} \cup
          {[readable |-> TRUE, var |-> v] : v \in 0..MaxVar}

\* a tag image picked as cover: image idx of tag list ev, its classification,
\* and how many images of that list the scan went through
Cover(n, sample) == [ev |-> n, type |-> sample.type, idx |-> sample.idx,
                     scanned |-> sample.scanned]

NoCover == [ev |-> 0, type |-> "", idx |-> 0, scanned |-> 0]

Pending == [tag |-> "Pending", err |-> "", cover |-> NoCover, frame |-> 0]

OkCoverArt(c) == [tag |-> "CoverArt", err |-> "", cover |-> c, frame |-> 0]

OkVideoFrame(i) == [tag |-> "VideoFrame", err |-> "", cover |-> NoCover, frame |-> i]

OkNone == [tag |-> "None", err |-> "", cover |-> NoCover, frame |-> 0]

Err(m) == [tag |-> "Err", err |-> m, cover |-> NoCover, frame |-> 0]

Panic(m) == [tag |-> "Panic", err |-> m, cover |-> NoCover, frame |-> 0]

ErrNoPad == "No pad added for source."

ErrWrongType(t) == IF t = "audio" THEN "Stream is of type 'audio' instead of 'video'"
                   ELSE "Stream is of type 'video' instead of 'video'"

ErrLink == "pad link failed"

ErrLive == "Error: thumbnails of live streams make little sense"

ErrStateChange == "Error: Failed setting pipeline to PAUSED"

ErrPreroll == "Failed pre-rolling pipeline"

ErrSeekPreroll == "Error: Failed pre-rolling pipeline after seek"

ErrPull == "pull_preroll failed"

ErrBuild == "element setup failed"

PanicUnwrapNone == "called Option::unwrap() on a None value"

PanicUnwrapErr == "called Result::unwrap() on an Err value"

ErrNoTagImage == "No tag image found"

ErrDecode == "image loading failed"

ErrEncode == "image encoding failed"

ErrCreate == "output file cannot be created"

ErrWrite == "output file cannot be written"

\* what main_*_thumbnailer made of the request: how it returned ("Pending":
\* not yet), its error message, and the output file ("none": not created,
\* "empty": created and not written, "png": written)
Returned(r, m, o) == [returned |-> r, err |-> m, output |-> o]

NotReturned == Returned("Pending", "", "none")

----------------------------------------------------------------------------
(* Pure functions *)

\* body of the `for sample_value in tags.iter_tag()` loop, from image i on,
\* with cover_sample the fallback remembered so far (0: None)
RECURSIVE ScanTagImages(_, _, _)
ScanTagImages(images, i, cover_sample) ==
    IF i > Len(images)
    THEN [type |-> IF cover_sample = 0 THEN "" ELSE images[cover_sample],
          idx |-> cover_sample, scanned |-> Len(images)]
    ELSE IF images[i] = "NoCaps"
         THEN ScanTagImages(images, i + 1, cover_sample)
    ELSE IF images[i] = "FrontCover"
         THEN [type |-> images[i], idx |-> i, scanned |-> i]
    ELSE IF images[i] \in {"Undefined", "Absent"} /\ cover_sample = 0
         THEN ScanTagImages(images, i + 1, i)
    ELSE ScanTagImages(images, i + 1, cover_sample)

\* the scan without the early return: a front cover is only remembered, like
\* an undefined image, if nothing was remembered before it
RECURSIVE ScanNoEarlyReturn(_, _, _)
ScanNoEarlyReturn(images, i, cover_sample) ==
    IF i > Len(images)
    THEN [type |-> IF cover_sample = 0 THEN "" ELSE images[cover_sample],
          idx |-> cover_sample, scanned |-> Len(images)]
    ELSE IF images[i] \in {"FrontCover", "Undefined", "Absent"} /\ cover_sample = 0
         THEN ScanNoEarlyReturn(images, i + 1, i)
    ELSE ScanNoEarlyReturn(images, i + 1, cover_sample)

get_thumbnail_first_usable(images) == ScanNoEarlyReturn(images, 1, 0)

\* the scan without the `if cover_sample.is_none()` guard: a later undefined
\* image replaces the remembered one
RECURSIVE ScanLastFallback(_, _, _)
ScanLastFallback(images, i, cover_sample) ==
    IF i > Len(images)
    THEN [type |-> IF cover_sample = 0 THEN "" ELSE images[cover_sample],
          idx |-> cover_sample, scanned |-> Len(images)]
    ELSE IF images[i] = "NoCaps"
         THEN ScanLastFallback(images, i + 1, cover_sample)
    ELSE IF images[i] = "FrontCover"
         THEN [type |-> images[i], idx |-> i, scanned |-> i]
    ELSE IF images[i] \in {"Undefined", "Absent"}
         THEN ScanLastFallback(images, i + 1, i)
    ELSE ScanLastFallback(images, i + 1, cover_sample)

get_thumbnail_last_fallback(images) == ScanLastFallback(images, 1, 0)

\* get_thumbnail_from_tag: idx = 0 stands for None
get_thumbnail_from_tag(images) == ScanTagImages(images, 1, 0)

\* Iterator::max_by as a fold over positions i..Len(s): the element kept is
\* replaced whenever the next one does not compare smaller
RECURSIVE MaxByFrom(_, _, _)
MaxByFrom(s, i, acc) ==
    IF i > Len(s) THEN acc
    ELSE MaxByFrom(s, i + 1, IF s[acc].var > s[i].var THEN acc ELSE i)

\* max_by with the tie broken the other way: the first maximum is kept
RECURSIVE MaxByFirstFrom(_, _, _)
MaxByFirstFrom(s, i, acc) ==
    IF i > Len(s) THEN acc
    ELSE MaxByFirstFrom(s, i + 1, IF s[acc].var >= s[i].var THEN acc ELSE i)

max_by_first(s) == MaxByFirstFrom(s, 2, 1)

\* max_by over all pairs but the first one
max_by_tail(s) == IF Len(s) = 1 THEN 1 ELSE MaxByFrom(s, 3, 2)

\* samples_with_variance.iter().max_by(|(_, var1), (_, var2)| ...): position
\* of the chosen pair in a non-empty s
max_by(s) == MaxByFrom(s, 2, 1)

\* the collection failing as a whole on the first unreadable sample
samples_all_or_nothing(s) ==
    IF \A i \in 1..Len(s) : s[i].readable
    THEN [k \in 1..Len(s) |-> [sample |-> k, var |-> s[k].var]]
    ELSE <<>>

\* the filter_map over samples: unreadable samples are dropped, the others are
\* paired with their variance (sample: position in samples)
samples_with_variance(s) ==
    LET idxs == SelectSeq([i \in 1..Len(s) |-> i], LAMBDA i : s[i].readable)
    IN  [k \in 1..Len(idxs) |-> [sample |-> idxs[k], var |-> s[idxs[k]].var]]

\* the scaling rounded down instead of up
mul_div_floor(d, num, den) == (d * num) \div den

\* duration.mul_div_ceil(percentage, 100)
mul_div_ceil(d, num, den) == (d * num + den - 1) \div den

\* the plan with the threshold itself counted as long
seek_plan_inclusive(d) == IF d >= LongVideoThreshold THEN SeekAtLong ELSE SeekAtShort

\* the seek plan chosen from the duration
seek_plan(d) == IF d > LongVideoThreshold THEN SeekAtLong ELSE SeekAtShort

----------------------------------------------------------------------------
(* Single precision arithmetic (f32) on positive values.  A value is       *)
(* [m, e], standing for m * 2^e, with m odd (or 0) and at most 24 bits.    *)

\* size of the significand of an f32: 24 bits
Significand == 16777216

RECURSIVE OddPart(_)
OddPart(n) == IF n % 2 = 0 THEN OddPart(n \div 2) ELSE n

RECURSIVE TwoExp(_)
TwoExp(n) == IF n % 2 = 0 THEN 1 + TwoExp(n \div 2) ELSE 0

RECURSIVE GCD(_, _)
GCD(a, b) == IF b = 0 THEN a ELSE GCD(b, a % b)

F32(m, e) == IF m = 0 THEN [m |-> 0, e |-> 0] ELSE [m |-> OddPart(m), e |-> e + TwoExp(m)]

\* `n as f32` for an integer below 2^24
AsF32(n) == F32(n, 0)

\* quotient q with remainder r of a division by d, rounded to nearest, ties to even
RoundEven(q, r, d) == IF 2 * r > d \/ (2 * r = d /\ q % 2 = 1) THEN q + 1 ELSE q

\* least s that brings p * 2^-s below 2^24
RECURSIVE ShiftFor(_, _)
ShiftFor(p, s) == IF p \div (2 ^ s) < Significand THEN s ELSE ShiftFor(p, s + 1)

\* the f32 nearest to p * 2^e
F32Round(p, e) ==
    LET s == ShiftFor(p, 0)
    IN  F32(RoundEven(p \div (2 ^ s), p % (2 ^ s), 2 ^ s), e + s)

\* least k that brings a * 2^k / b to 2^23 or above
RECURSIVE DivShift(_, _, _)
DivShift(a, b, k) ==
    IF (a * (2 ^ k)) \div b >= Significand \div 2 THEN k ELSE DivShift(a, b, k + 1)

\* a / b on f32 values that hold the positive integers a and b
F32Div(a, b) ==
    LET g == GCD(a, b)
        n == OddPart(a \div g)
        d == OddPart(b \div g)
        e == TwoExp(a \div g) - TwoExp(b \div g)
        k == DivShift(n, d, 0)
    IN  IF d = 1 THEN F32(n, e)
        ELSE F32(RoundEven((n * (2 ^ k)) \div d, (n * (2 ^ k)) % d, d), e - k)

\* x * y on f32 values
F32Mul(x, y) == F32Round(x.m * y.m, x.e + y.e)

\* x < y on f32 values that hold integers
F32Less(x, y) == x.m * (2 ^ x.e) < y.m * (2 ^ y.e)

\* f32::round (half away from zero) followed by `as u32`
RoundAsU32(x) ==
    IF x.e >= 0 THEN x.m * (2 ^ x.e)
    ELSE IF -x.e > 30 THEN 0
    ELSE (x.m + 2 ^ (-x.e - 1)) \div (2 ^ (-x.e))

\* the scaling without the branch that avoids upscaling
scale_always(width, height, thumbnail_size) ==
    LET scale == IF F32Less(AsF32(height), AsF32(width))
                 THEN F32Div(thumbnail_size, width)
                 ELSE F32Div(thumbnail_size, height)
    IN  [new_width |-> RoundAsU32(F32Mul(AsF32(width), scale)),
         new_height |-> RoundAsU32(F32Mul(AsF32(height), scale))]

\* scale_thumbnail_dimensions, width and height being whole numbers
scale_thumbnail_dimensions(width, height, thumbnail_size) ==
    LET size == AsF32(thumbnail_size)
        scale == IF F32Less(AsF32(width), size) /\ F32Less(AsF32(height), size)
                 THEN AsF32(1)
                 ELSE IF F32Less(AsF32(height), AsF32(width))
                      THEN F32Div(thumbnail_size, width)
                      ELSE F32Div(thumbnail_size, height)
    IN  [new_width |-> RoundAsU32(F32Mul(AsF32(width), scale)),
         new_height |-> RoundAsU32(F32Mul(AsF32(height), scale))]

----------------------------------------------------------------------------
(* Pixel buffers.  Scores are kept as fractions in lowest terms; the       *)
(* rounding of the f32 sums is left out.                                   *)

RECURSIVE SumSeq(_)
SumSeq(q) == IF q = <<>> THEN 0 ELSE Head(q) + SumSeq(Tail(q))

\* the fraction num / den in lowest terms
Ratio(num, den) ==
    LET g == GCD(num, den)
    IN  [num |-> num \div g, den |-> den \div g]

\* xs.chunks_exact(n): the complete chunks of n bytes, in order
chunks_exact(xs, n) ==
    [r \in 1..(Len(xs) \div n) |-> SubSeq(xs, (r - 1) * n + 1, r * n)]

\* the sum over all chunks of stride values of the sum of the first
\* effective_stride values of the chunk
SumLines(xs, stride, effective_stride) ==
    LET lines == chunks_exact(xs, stride)
    IN  SumSeq([r \in 1..Len(lines) |->
                  SumSeq([c \in 1..effective_stride |-> lines[r][c]])])

\* (x as f32 - avg).powi(2) for every byte x, times len^2, avg being total / len
SquaredDiffs(xs, len, total) ==
    [i \in 1..Len(xs) |-> (len * xs[i] - total) * (len * xs[i] - total)]

\* the sum of the squared differences of variance, times len^2 (a whole number)
sq_diff(xs, width, stride, height) ==
    LET effective_stride == width * 3
        len == effective_stride * height
        total == SumLines(xs, stride, effective_stride)
    IN  SumLines(SquaredDiffs(xs, len, total), stride, effective_stride)

\* the variance with the squared differences divided by len - 1
variance_unbiased(xs, width, stride, height) ==
    LET len == width * 3 * height
    IN  Ratio(sq_diff(xs, width, stride, height), len * len * (len - 1))

\* the variance taken over the whole rows, padding included
variance_whole_rows(xs, width, stride, height) ==
    LET len == stride * height
        total == SumLines(xs, stride, stride)
    IN  Ratio(SumLines(SquaredDiffs(xs, len, total), stride, stride), len * len * len)

\* variance: avg = sum / len, then sq_diff / len
variance(xs, width, stride, height) ==
    LET len == width * 3 * height
    IN  Ratio(sq_diff(xs, width, stride, height), len * len * len)

\* the copy that takes the source for tightly packed: output row r starts at
\* offset r * new_stride of the source
copy_packed(sample_map, width, height, stride) ==
    SubSeq(sample_map, 1, height * width * 3)

\* "Get rid of padding after stride": buf starts as zeros and every output
\* line that has a source chunk gets the first new_stride bytes of it
destride(sample_map, width, height, stride) ==
    LET new_stride == width * 3
        in_lines == chunks_exact(sample_map, stride)
    IN  [i \in 1..(height * new_stride) |->
            LET r == ((i - 1) \div new_stride) + 1
                c == ((i - 1) % new_stride) + 1
            IN  IF r <= Len(in_lines) THEN in_lines[r][c] ELSE 0]

----------------------------------------------------------------------------
(* Initial state: before Pipeline::new() *)

InitRequest(F) ==
    /\ req \in {"audio", "video"}
    /\ pc = "build"
    /\ pipeline = [state |-> "Null", dropped |-> FALSE]
    /\ bus = <<>>
    /\ srcPrerolled = FALSE
    /\ source \in F
    /\ tagsPosted = 0
    /\ padsAdded = 0
    /\ source_link_status = ErrNoPad
    /\ linkedPad = 0
    /\ capsFrom = 0
    /\ duration = 0
    /\ seek_at = <<>>
    /\ seekIdx = 1
    /\ lastSeek = [pos |-> 0, ok |-> TRUE]
    /\ nSeeks = 0
    /\ nPulls = 0
    /\ samples = <<>>
    /\ stale = 0
    /\ result = Pending
    /\ stateChange = ""
    /\ process = NotReturned
    /\ linkChecked = FALSE

\* no scale_thumbnail_dimensions call at hand
NoScaling ==
    /\ dims = [width |-> 0, height |-> 0, thumbnail_size |-> 0]
    /\ thumb = [done |-> FALSE, new_width |-> 0, new_height |-> 0]

\* no frame at hand
NoFrame ==
    /\ frame = [width |-> 0, height |-> 0, stride |-> 0, data |-> <<>>]
    /\ pix = [stage |-> "none", var |-> [num |-> 0, den |-> 1], buf |-> <<>>]

InitWith(F) == InitRequest(F) /\ NoScaling /\ NoFrame

----------------------------------------------------------------------------
(* Leaving the function *)

\* a wrapper without the Drop implementation: the pipeline keeps its state
DropWithoutNull ==
    /\ pipeline' = [pipeline EXCEPT !.dropped = TRUE]
    /\ bus' = bus

\* impl Drop for Pipeline: set_state(Null), which also flushes the bus
DropPipeline ==
    /\ pipeline' = [state |-> "Null", dropped |-> TRUE]
    /\ bus' = <<>>

\* `return r` (or `?`): the local `pipeline` goes out of scope
Return(r) ==
    /\ result' = r
    /\ pc' = "done"
    /\ DropPipeline

envVars == <<srcPrerolled, source, tagsPosted, padsAdded, source_link_status, linkedPad, capsFrom>>

loopVars == <<duration, seek_at, seekIdx, lastSeek, nSeeks, nPulls, samples>>

----------------------------------------------------------------------------
(* Setting up *)

\* Pipeline::new(), ElementFactory::make(..).build()?, add_many(..)?,
\* link_many(..)?, connect_pad_added(..)
Build ==
    /\ pc = "build"
    /\ \E ok \in BOOLEAN :
         IF ok
         THEN /\ pc' = "set_state"
              /\ UNCHANGED <<pipeline, bus, result>>
         ELSE Return(Err(ErrBuild))
    /\ UNCHANGED <<req, process, linkChecked, pureVars, stateChange, stale, envVars, loopVars>>

\* the match with NoPreroll taken for a success like the others
SetStatePausedLive ==
    /\ pc = "set_state"
    /\ \E r \in {"Ok", "NoPreroll", "Err"} :
         /\ stateChange' = r
         /\ CASE r \in {"Ok", "NoPreroll"} ->
                  /\ pipeline' = [pipeline EXCEPT !.state = "Paused"]
                  /\ pc' = "preroll"
                  /\ UNCHANGED <<bus, result>>
              [] r = "Err" -> Return(Err(ErrStateChange))
    /\ UNCHANGED <<req, process, linkChecked, pureVars, stale, envVars, loopVars>>

\* match pipeline.set_state(gst::State::Paused)
SetStatePaused ==
    /\ pc = "set_state"
    /\ \E r \in {"Ok", "NoPreroll", "Err"} :
         /\ stateChange' = r
         /\ CASE r = "Ok" ->
                  /\ pipeline' = [pipeline EXCEPT !.state = "Paused"]
                  /\ pc' = "preroll"
                  /\ UNCHANGED <<bus, result>>
              [] r = "NoPreroll" -> Return(Err(ErrLive))
              [] r = "Err" -> Return(Err(ErrStateChange))
    /\ UNCHANGED <<req, process, linkChecked, pureVars, stale, envVars, loopVars>>

----------------------------------------------------------------------------
(* The pipeline (environment): streaming thread and bus *)

\* the pipeline runs from set_state(Paused) until it is set to Null
Running == pipeline.state = "Paused"

Post(m) ==
    /\ Running
    /\ Len(bus) < MaxBus
    /\ bus' = Append(bus, m)

\* a tag list reaches the bus while the source prerolls
PostTag ==
    /\ ~srcPrerolled
    /\ tagsPosted < Len(source.tags)
    /\ Post(Msg("Tag", source.tags[tagsPosted + 1], tagsPosted + 1))
    /\ tagsPosted' = tagsPosted + 1
    /\ UNCHANGED <<req, process, linkChecked, pureVars, stateChange, stale, pc, pipeline, srcPrerolled, source, padsAdded,
                   source_link_status, linkedPad, capsFrom, loopVars, result>>

\* decodebin announces the selected streams while the source prerolls
PostStreamsSelected ==
    /\ ~srcPrerolled
    /\ Post(Msg("StreamsSelected", <<>>, 0))
    /\ UNCHANGED <<req, process, linkChecked, pureVars, stateChange, stale, pc, pipeline, envVars, loopVars, result>>

\* a preroll (the first one, or the one after a flushing seek) completed
PostAsyncDone ==
    /\ Post(Msg("AsyncDone", <<>>, 0))
    /\ srcPrerolled' = TRUE
    /\ UNCHANGED <<req, process, linkChecked, pureVars, stateChange, stale, pc, pipeline, source, tagsPosted, padsAdded,
                   source_link_status, linkedPad, capsFrom, loopVars, result>>

\* an element reported an error
PostError ==
    /\ Post(Msg("Error", <<>>, 0))
    /\ srcPrerolled' = TRUE
    /\ UNCHANGED <<req, process, linkChecked, pureVars, stateChange, stale, pc, pipeline, source, tagsPosted, padsAdded,
                   source_link_status, linkedPad, capsFrom, loopVars, result>>

\* any message the loops ignore (state-changed, stream-start, ..., and every
\* non-error message posted after preroll, which the filtered pop discards)
PostOther ==
    /\ Post(Msg("Other", <<>>, 0))
    /\ UNCHANGED <<req, process, linkChecked, pureVars, stateChange, stale, pc, pipeline, envVars, loopVars, result>>

\* result of the link_source closure for stream p; linkOk: what
\* src_pad.link(&sink_pad) answers if it is called
link_source(p, linkOk) ==
    IF source.streams[p] # "video" THEN ErrWrongType(source.streams[p])
    ELSE IF linkedPad = 0 /\ ~linkOk THEN ErrLink
    ELSE "Ok"

\* the status overwritten by every pad-added callback
update_status_always(status, res) == res

\* the status written by the first pad-added callback only
update_status_once(status, res) == IF status = ErrNoPad THEN res ELSE status

\* `if status.is_err() { *status = result }`, under the lock
update_status(status, res) == IF status # "Ok" THEN res ELSE status

\* the pad-added closure of get_video_thumbnail_source, run for the next pad
PadAddedVideo ==
    /\ req = "video"
    /\ Running
    /\ ~srcPrerolled
    /\ padsAdded < Len(source.streams)
    /\ \E linkOk \in BOOLEAN :
         LET p == padsAdded + 1
             res == link_source(p, linkOk)
         IN  /\ padsAdded' = p
             /\ capsFrom' = IF source.streams[p] = "video" THEN p ELSE capsFrom
             /\ linkedPad' = IF source.streams[p] = "video" /\ linkedPad = 0 /\ linkOk
                             THEN p ELSE linkedPad
             /\ source_link_status' = update_status(source_link_status, res)
    /\ UNCHANGED <<req, process, linkChecked, pureVars, stateChange, stale, pc, pipeline, bus, srcPrerolled, source, tagsPosted,
                   loopVars, result>>

\* the pad-added closure of get_audio_thumbnail_source (fakesink takes any pad)
PadAddedAudio ==
    /\ req = "audio"
    /\ Running
    /\ ~srcPrerolled
    /\ padsAdded < Len(source.streams)
    /\ padsAdded' = padsAdded + 1
    /\ linkedPad' = IF linkedPad = 0 THEN padsAdded + 1 ELSE linkedPad
    /\ UNCHANGED <<req, process, linkChecked, pureVars, stateChange, stale, pc, pipeline, bus, srcPrerolled, source, tagsPosted,
                   source_link_status, capsFrom, loopVars, result>>

----------------------------------------------------------------------------
(* Preroll loop of get_video_thumbnail_source *)

Popped(t) ==
    /\ bus # <<>>
    /\ Head(bus).type = t

\* gst::MessageView::StreamsSelected(_)
VideoStreamsSelected ==
    /\ req = "video" /\ pc = "preroll"
    /\ Popped("StreamsSelected")
    /\ source_link_status' = "Ok"
    /\ IF source_link_status # "Ok"
       THEN /\ Return(Err(source_link_status))
            /\ UNCHANGED linkChecked
       ELSE /\ bus' = Tail(bus)
            /\ linkChecked' = TRUE
            /\ UNCHANGED <<pc, pipeline, result>>
    /\ UNCHANGED <<req, process, pureVars, stateChange, stale, srcPrerolled, source, tagsPosted, padsAdded, linkedPad,
                   capsFrom, loopVars>>

\* gst::MessageView::AsyncDone(_) => break
VideoAsyncDone ==
    /\ req = "video" /\ pc = "preroll"
    /\ Popped("AsyncDone")
    /\ bus' = Tail(bus)
    /\ pc' = "query"
    /\ UNCHANGED <<req, process, linkChecked, pureVars, stateChange, stale, pipeline, envVars, loopVars, result>>

\* gst::MessageView::Error(err)
VideoError ==
    /\ req = "video" /\ pc = "preroll"
    /\ Popped("Error")
    /\ Return(Err(ErrPreroll))
    /\ UNCHANGED <<req, process, linkChecked, pureVars, stateChange, stale, envVars, loopVars>>

\* the Tag arm without its return: the cover is dropped and the loop goes on
VideoTagIgnored ==
    /\ req = "video" /\ pc = "preroll"
    /\ Popped("Tag")
    /\ bus' = Tail(bus)
    /\ UNCHANGED <<req, process, linkChecked, pureVars, stateChange, stale, pc, pipeline, envVars, loopVars, result>>

\* gst::MessageView::Tag(tag)
VideoTag ==
    /\ req = "video" /\ pc = "preroll"
    /\ Popped("Tag")
    /\ LET sample == get_thumbnail_from_tag(Head(bus).images)
       IN  IF sample.idx # 0
           THEN Return(OkCoverArt(Cover(Head(bus).ev, sample)))
           ELSE /\ bus' = Tail(bus)
                /\ UNCHANGED <<pc, pipeline, result>>
    /\ UNCHANGED <<req, process, linkChecked, pureVars, stateChange, stale, envVars, loopVars>>

\* _ => {}
VideoOther ==
    /\ req = "video" /\ pc = "preroll"
    /\ Popped("Other")
    /\ bus' = Tail(bus)
    /\ UNCHANGED <<req, process, linkChecked, pureVars, stateChange, stale, pc, pipeline, envVars, loopVars, result>>

----------------------------------------------------------------------------
(* Preroll loop of get_audio_thumbnail_source *)

\* gst::MessageView::AsyncDone(_) => return Ok(None)
AudioAsyncDone ==
    /\ req = "audio" /\ pc = "preroll"
    /\ Popped("AsyncDone")
    /\ Return(OkNone)
    /\ UNCHANGED <<req, process, linkChecked, pureVars, stateChange, stale, envVars, loopVars>>

\* gst::MessageView::Error(err)
AudioError ==
    /\ req = "audio" /\ pc = "preroll"
    /\ Popped("Error")
    /\ Return(Err(ErrPreroll))
    /\ UNCHANGED <<req, process, linkChecked, pureVars, stateChange, stale, envVars, loopVars>>

\* gst::MessageView::Tag(tag)
AudioTag ==
    /\ req = "audio" /\ pc = "preroll"
    /\ Popped("Tag")
    /\ LET sample == get_thumbnail_from_tag(Head(bus).images)
       IN  IF sample.idx # 0
           THEN Return(OkCoverArt(Cover(Head(bus).ev, sample)))
           ELSE /\ bus' = Tail(bus)
                /\ UNCHANGED <<pc, pipeline, result>>
    /\ UNCHANGED <<req, process, linkChecked, pureVars, stateChange, stale, envVars, loopVars>>

\* _ => {} (StreamsSelected included)
AudioOther ==
    /\ req = "audio" /\ pc = "preroll"
    /\ bus # <<>>
    /\ Head(bus).type \in {"Other", "StreamsSelected"}
    /\ bus' = Tail(bus)
    /\ UNCHANGED <<req, process, linkChecked, pureVars, stateChange, stale, pc, pipeline, envVars, loopVars, result>>

----------------------------------------------------------------------------
(* Frame extraction of get_video_thumbnail_source *)

\* pipeline.query_duration() (unknown: ClockTime::ZERO), then let seek_at
QueryDuration ==
    /\ pc = "query"
    /\ \E q \in source.durations :
         LET dur == IF q.known THEN q.d ELSE 0
         IN  /\ duration' = dur
             /\ seek_at' = seek_plan(dur)
    /\ pc' = "pull0"
    /\ UNCHANGED <<req, process, linkChecked, pureVars, stateChange, stale, pipeline, bus, envVars, seekIdx, lastSeek, nSeeks, nPulls,
                   samples, result>>

\* let mut samples = vec![appsink.pull_preroll()?]
PullFirst ==
    /\ pc = "pull0"
    /\ nPulls' = nPulls + 1
    /\ \/ \E f \in source.frames :
            /\ samples' = <<f>>
            /\ pc' = "seek"
            /\ UNCHANGED <<pipeline, bus, result>>
       \/ /\ Return(Err(ErrPull))
          /\ UNCHANGED samples
    /\ UNCHANGED <<req, process, linkChecked, pureVars, stateChange, stale, envVars, duration, seek_at, seekIdx, lastSeek, nSeeks>>

\* the seek with its failure propagated (`?`) instead of logged
SeekOrReturn ==
    /\ pc = "seek"
    /\ seekIdx <= Len(seek_at)
    /\ nSeeks' = nSeeks + 1
    /\ \E ok \in BOOLEAN :
         /\ lastSeek' = [pos |-> mul_div_ceil(duration, seek_at[seekIdx], 100), ok |-> ok]
         /\ IF ok
            THEN /\ pc' = "wait"
                 /\ UNCHANGED <<pipeline, bus, result>>
            ELSE Return(Err("Failed to seek"))
    /\ stale' = Len(bus)
    /\ UNCHANGED <<req, process, linkChecked, pureVars, stateChange, envVars, duration, seek_at, seekIdx, nPulls, samples>>

\* one turn of `for percentage in seek_at`, up to the wait: seek_to and
\* pipeline.seek_simple(FLUSH | KEY_UNIT, seek_to), whose failure is only logged
Seek ==
    /\ pc = "seek"
    /\ seekIdx <= Len(seek_at)
    /\ \E ok \in BOOLEAN :
         lastSeek' = [pos |-> mul_div_ceil(duration, seek_at[seekIdx], 100), ok |-> ok]
    /\ nSeeks' = nSeeks + 1
    /\ pc' = "wait"
    /\ stale' = Len(bus)
    /\ UNCHANGED <<req, process, linkChecked, pureVars, stateChange, pipeline, bus, envVars, duration, seek_at, seekIdx, nPulls,
                   samples, result>>

\* a wait that any message ends: the frame is pulled after the first message
\* popped, whatever its type
WaitSeekAny ==
    /\ pc = "wait"
    /\ bus # <<>>
    /\ Head(bus).type \notin {"Error", "AsyncDone"}
    /\ bus' = Tail(bus)
    /\ pc' = "pull"
    /\ stale' = 0
    /\ UNCHANGED <<req, process, linkChecked, pureVars, stateChange, pipeline, envVars, loopVars, result>>

\* timed_pop_filtered(NONE, [Error, AsyncDone]): a message of another type is
\* popped and discarded
WaitSeekDiscard ==
    /\ pc = "wait"
    /\ bus # <<>>
    /\ Head(bus).type \notin {"Error", "AsyncDone"}
    /\ bus' = Tail(bus)
    /\ stale' = IF stale > 0 THEN stale - 1 ELSE 0
    /\ UNCHANGED <<req, process, linkChecked, pureVars, stateChange, pc, pipeline, envVars, loopVars, result>>

\* timed_pop_filtered returns an AsyncDone
WaitSeekAsyncDone ==
    /\ pc = "wait"
    /\ Popped("AsyncDone")
    /\ bus' = Tail(bus)
    /\ pc' = "pull"
    /\ stale' = 0
    /\ UNCHANGED <<req, process, linkChecked, pureVars, stateChange, pipeline, envVars, loopVars, result>>

\* timed_pop_filtered returns an Error
WaitSeekError ==
    /\ pc = "wait"
    /\ Popped("Error")
    /\ Return(Err(ErrSeekPreroll))
    /\ stale' = 0
    /\ UNCHANGED <<req, process, linkChecked, pureVars, stateChange, envVars, loopVars>>

\* the end of the loop body with the pull left out after a failed seek
PullUnlessSeekFailed ==
    /\ pc = "pull"
    /\ IF lastSeek.ok
       THEN /\ nPulls' = nPulls + 1
            /\ \/ \E f \in source.frames :
                    /\ samples' = Append(samples, f)
                    /\ seekIdx' = seekIdx + 1
                    /\ pc' = IF seekIdx = Len(seek_at) THEN "select" ELSE "seek"
                    /\ UNCHANGED <<pipeline, bus, result>>
               \/ /\ Return(Err(ErrPull))
                  /\ UNCHANGED <<samples, seekIdx>>
       ELSE /\ seekIdx' = seekIdx + 1
            /\ pc' = IF seekIdx = Len(seek_at) THEN "select" ELSE "seek"
            /\ UNCHANGED <<pipeline, bus, result, samples, nPulls>>
    /\ UNCHANGED <<req, process, linkChecked, pureVars, stateChange, stale, envVars, duration, seek_at, lastSeek, nSeeks>>

\* samples.push(appsink.pull_preroll()?), end of the loop body
PullAfterSeek ==
    /\ pc = "pull"
    /\ nPulls' = nPulls + 1
    /\ \/ \E f \in source.frames :
            /\ samples' = Append(samples, f)
            /\ seekIdx' = seekIdx + 1
            /\ pc' = IF seekIdx = Len(seek_at) THEN "select" ELSE "seek"
            /\ UNCHANGED <<pipeline, bus, result>>
       \/ /\ Return(Err(ErrPull))
          /\ UNCHANGED <<samples, seekIdx>>
    /\ UNCHANGED <<req, process, linkChecked, pureVars, stateChange, stale, envVars, duration, seek_at, lastSeek, nSeeks>>

\* samples_with_variance, max_by(..).unwrap(), de-striding, Ok(VideoFrame)
SelectBest ==
    /\ pc = "select"
    /\ LET scored == samples_with_variance(samples)
       IN  IF scored = <<>>
           THEN Return(Panic(PanicUnwrapNone))
           ELSE Return(OkVideoFrame(scored[max_by(scored)].sample))
    /\ UNCHANGED <<req, process, linkChecked, pureVars, stateChange, stale, envVars, loopVars>>

----------------------------------------------------------------------------
(* main_audio_thumbnailer, main_video_thumbnailer and the binaries *)

\* the ways ThumbnailSource::write_png ends for a source of the given kind:
\* the value it returns or the panic inside it, and the output file it leaves
write_png(kind) ==
    IF kind = "VideoFrame"
    THEN {Returned("Ok", "", "png"),
          Returned("Err", ErrEncode, "none"),
          Returned("Err", ErrCreate, "none"),
          Returned("Err", ErrWrite, "empty")}
    ELSE {Returned("Ok", "", "png"),
          Returned("Err", ErrDecode, "none"),
          Returned("Err", ErrEncode, "none"),
          Returned("Panic", PanicUnwrapErr, "none"),
          Returned("Err", ErrWrite, "empty")}

\* `.write_png(&args.output, args.size).unwrap(); Ok(())`
write_and_unwrap(w) ==
    IF w.returned = "Err" THEN Returned("Panic", PanicUnwrapErr, w.output) ELSE w

\* exit code of the process: 0 after Ok, exit(1) after Err, and the panic
\* handler's 101 when the thread panicked
exit_code(p) ==
    CASE p.returned = "Ok" -> 0
      [] p.returned = "Err" -> 1
      [] p.returned = "Panic" -> 101

\* the rest of a main once get_*_thumbnail_source has returned r; none: what
\* the main makes of Ok(None)
Finish(r, none) ==
    /\ pc' = "exit"
    /\ CASE r.tag = "Err" -> process' = Returned("Err", r.err, "none")
         [] r.tag = "Panic" -> process' = Returned("Panic", r.err, "none")
         [] r.tag = "None" -> process' = none
         [] OTHER -> \E w \in write_png(r.tag) : process' = write_and_unwrap(w)
    /\ UNCHANGED <<req, linkChecked, pureVars, stateChange, stale, pipeline, bus, envVars, loopVars,
                   result>>

\* a main_audio_thumbnailer that takes Ok(None) for a success
MainAudioNoneOk ==
    /\ req = "audio" /\ pc = "done"
    /\ Finish(result, Returned("Ok", "", "none"))

\* main_audio_thumbnailer after get_audio_thumbnail_source
MainAudio ==
    /\ req = "audio" /\ pc = "done"
    /\ Finish(result, Returned("Err", ErrNoTagImage, "none"))

\* main_video_thumbnailer after get_video_thumbnail_source (which never
\* returns None)
MainVideo ==
    /\ req = "video" /\ pc = "done"
    /\ Finish(result, NotReturned)

\* `while let Some(message) = ..timed_pop(NONE)` of the audio loop gets None
\* (the bus is flushing): Ok(None)
AudioStreamEnds ==
    /\ req = "audio" /\ pc = "preroll"
    /\ bus = <<>>
    /\ Return(OkNone)
    /\ UNCHANGED <<req, process, linkChecked, pureVars, stateChange, stale, envVars, loopVars>>

\* the same in the video loop: the loop ends as it does on AsyncDone
VideoStreamEnds ==
    /\ req = "video" /\ pc = "preroll"
    /\ bus = <<>>
    /\ pc' = "query"
    /\ UNCHANGED <<req, process, linkChecked, pureVars, stateChange, stale, pipeline, bus, envVars, loopVars, result>>

----------------------------------------------------------------------------

Next ==
    \/ Build
    \/ SetStatePaused
    \/ PostTag
    \/ PostStreamsSelected
    \/ PostAsyncDone
    \/ PostError
    \/ PostOther
    \/ PadAddedVideo
    \/ PadAddedAudio
    \/ VideoStreamsSelected
    \/ VideoAsyncDone
    \/ VideoError
    \/ VideoTag
    \/ VideoOther
    \/ AudioAsyncDone
    \/ AudioError
    \/ AudioTag
    \/ AudioOther
    \/ QueryDuration
    \/ PullFirst
    \/ Seek
    \/ WaitSeekDiscard
    \/ WaitSeekAsyncDone
    \/ WaitSeekError
    \/ PullAfterSeek
    \/ SelectBest

----------------------------------------------------------------------------
(* Media sources the requests are run against *)

Source(st, tg, fr, du) == [streams |-> st, tags |-> tg, frames |-> fr, durations |-> du]

\* a readable frame of variance 0
PlainFrame == [readable |-> TRUE, var |-> 0]

\* every stream layout, with no tag list, one tag list holding a front cover
\* or one holding no usable image; frames all alike, a short duration
CoreSources ==
    {Source(st, tg, {PlainFrame}, {Known(60 * SECOND)}) :
        st \in SeqsUpTo(StreamTypes, MaxPads),
        tg \in {<<>>, << <<"FrontCover">> >>, << <<"Other">> >>}}

\* one video stream and every sequence of tag lists; no frame can be pulled
CoverSources ==
    {Source(<<"video">>, tg, {}, {Known(60 * SECOND)}) : tg \in TagScripts}

\* one video stream, no tags, every frame at every pull
FrameSources == {Source(<<"video">>, <<>>, Frames, {Known(60 * SECOND)})}

\* one video stream, no tags, every duration and the unknown one
PlanSources ==
    {Source(<<"video">>, <<>>, {PlainFrame}, {Known(d) : d \in Durations} \cup {Unknown})}

Init == InitWith(CoreSources)

InitCover == InitWith(CoreSources \cup CoverSources)

InitFrames == InitWith(CoreSources \cup FrameSources)

InitPlan == InitWith(CoreSources \cup PlanSources)

Spec == Init /\ [][Next]_vars

SpecCover == InitCover /\ [][Next]_vars

SpecFrames == InitFrames /\ [][Next]_vars

SpecPlan == InitPlan /\ [][Next]_vars

\* the whole process: the request, then the rest of the main function
NextMain ==
    \/ Next
    \/ AudioStreamEnds
    \/ VideoStreamEnds
    \/ MainAudio
    \/ MainVideo

SpecMain == Init /\ [][NextMain]_vars

----------------------------------------------------------------------------
(* Requests against a media source that answers *)

\* the steps of the control loop (the thread that runs the request)
Control ==
    \/ Build
    \/ SetStatePaused
    \/ VideoStreamsSelected
    \/ VideoAsyncDone
    \/ VideoError
    \/ VideoTag
    \/ VideoOther
    \/ AudioAsyncDone
    \/ AudioError
    \/ AudioTag
    \/ AudioOther
    \/ QueryDuration
    \/ PullFirst
    \/ Seek
    \/ WaitSeekDiscard
    \/ WaitSeekAsyncDone
    \/ WaitSeekError
    \/ PullAfterSeek
    \/ SelectBest

\* the last seek was accepted and no AsyncDone or Error was posted since
SeekUnanswered ==
    /\ pc = "wait"
    /\ lastSeek.ok
    /\ \A i \in (stale + 1)..Len(bus) : bus[i].type \notin {"AsyncDone", "Error"}

\* the source completes what it owes: its first preroll, or the preroll of
\* a flushing seek it accepted
Complete ==
    /\ ~srcPrerolled \/ SeekUnanswered
    /\ PostAsyncDone \/ PostError

\* one video stream, with and without a tag list that holds no usable image
LiveSources ==
    {Source(<<"video">>, tg, {PlainFrame}, {Known(60 * SECOND)}) :
        tg \in {<<>>, << <<"Other">> >>}}

InitLive == InitWith(LiveSources)

\* the control loop runs whenever it can (a frame pull returns), and the
\* source posts AsyncDone or Error for its first preroll and for every seek
\* it accepted
SpecLive ==
    /\ InitLive
    /\ [][Next]_vars
    /\ WF_vars(Control)
    /\ SF_vars(Complete)

----------------------------------------------------------------------------
(* scale_thumbnail_dimensions on its own *)

\* the call made by link_source (stream size) and by write_png (cover size)
ScaleThumbnail ==
    /\ ~thumb.done
    /\ dims.width > 0
    /\ LET r == scale_thumbnail_dimensions(dims.width, dims.height, dims.thumbnail_size)
       IN  thumb' = [done |-> TRUE, new_width |-> r.new_width, new_height |-> r.new_height]
    /\ UNCHANGED <<req, process, linkChecked, pc, pipeline, bus, envVars, loopVars, stale, result, stateChange,
                   dims, frame, pix>>

\* a video request about to scale an image of any size up to MaxSide to any
\* thumbnail size up to MaxSize
InitScale ==
    /\ InitRequest({Source(<<"video">>, <<>>, {PlainFrame}, {Known(60 * SECOND)})})
    /\ req = "video"
    /\ dims \in [width : 1..MaxSide, height : 1..MaxSide, thumbnail_size : 1..MaxSize]
    /\ thumb = [done |-> FALSE, new_width |-> 0, new_height |-> 0]
    /\ NoFrame

NextScale == ScaleThumbnail

SpecScale == InitScale /\ [][NextScale]_vars

----------------------------------------------------------------------------
(* variance and the de-striding on their own *)

\* byte values of a frame
Bytes == {0, 128, 255}

\* the layouts of an RGB frame whose buffer has at most MaxBytes bytes
Layouts ==
    {l \in [width : 1..MaxBytes, height : 1..MaxBytes, stride : 1..MaxBytes] :
        /\ l.stride >= l.width * 3
        /\ l.stride <= l.width * 3 + MaxPadding
        /\ l.stride * l.height <= MaxBytes}

\* the frames of a layout: stride * height bytes
PixelFrames(l) ==
    {[width |-> l.width, height |-> l.height, stride |-> l.stride, data |-> d] :
        d \in [1..(l.stride * l.height) -> Bytes]}

\* the filter_map closure: variance(&data, info.width(), info.stride()[0], info.height())
ScoreFrame ==
    /\ pix.stage = "pulled"
    /\ pix' = [pix EXCEPT !.stage = "scored",
                          !.var = variance(frame.data, frame.width, frame.stride, frame.height)]
    /\ UNCHANGED <<req, process, linkChecked, pc, pipeline, bus, envVars, loopVars, stale, result, stateChange,
                   dims, thumb, frame>>

\* the copy of the best sample into buf
DestrideFrame ==
    /\ pix.stage = "scored"
    /\ pix' = [pix EXCEPT !.stage = "copied",
                          !.buf = destride(frame.data, frame.width, frame.height, frame.stride)]
    /\ UNCHANGED <<req, process, linkChecked, pc, pipeline, bus, envVars, loopVars, stale, result, stateChange,
                   dims, thumb, frame>>

\* a video request holding one pulled frame
InitPixels ==
    /\ InitRequest({Source(<<"video">>, <<>>, {PlainFrame}, {Known(60 * SECOND)})})
    /\ req = "video"
    /\ NoScaling
    /\ \E l \in Layouts : frame \in PixelFrames(l)
    /\ pix = [stage |-> "pulled", var |-> [num |-> 0, den |-> 1], buf |-> <<>>]

NextPixels == ScoreFrame \/ DestrideFrame

SpecPixels == InitPixels /\ [][NextPixels]_vars

----------------------------------------------------------------------------
(* Best-frame selection *)

\* the request returned the frame at position result.frame of samples
ReturnedFrame == pc = "done" /\ result.tag = "VideoFrame"

\* positions of samples that were scored
Scored == {i \in 1..Len(samples) : samples[i].readable}

\* the returned frame is a scored one of maximum variance
ReturnedIsMax ==
    /\ result.frame \in Scored
    /\ \A i \in Scored : samples[i].var <= samples[result.frame].var

\* C1 as stated: the selected frame has the maximum score, and among several
\* frames sharing the maximum the first in iteration order is selected.
C1_FirstMaxSelected ==
    ReturnedFrame =>
        /\ ReturnedIsMax
        /\ \A i \in Scored : samples[i].var = samples[result.frame].var => result.frame <= i

\* C1 amended: the selected frame has the maximum score, and among several
\* frames sharing the maximum the LAST in iteration order is selected
\* (scores [5, 9, 9, 2] select position 3, i.e. index 2 counted from 0).
C1_LastMaxSelected ==
    /\ ReturnedFrame =>
        /\ ReturnedIsMax
        /\ \A i \in Scored : samples[i].var = samples[result.frame].var => i <= result.frame
    /\ max_by(<<[var |-> 5], [var |-> 9], [var |-> 9], [var |-> 2]>>) = 3

\* a frame was returned although an earlier scored frame has the same, maximal, score
C1_TieWitness ==
    /\ ReturnedFrame
    /\ \E i \in Scored : i < result.frame /\ samples[i].var = samples[result.frame].var
    /\ \E i \in Scored : samples[i].var < samples[result.frame].var

----------------------------------------------------------------------------
(* Cover art selection *)

\* the request returned the cover result.cover
ReturnedCover == pc = "done" /\ result.tag = "CoverArt"

\* positions of the images of a tag list with one of the given classifications
Positions(images, types) == {i \in 1..Len(images) : images[i] \in types}

Fallbacks == {"Undefined", "Absent"}

\* the tag lists posted on the bus during preroll, in order
PostedTags == SubSeq(source.tags, 1, tagsPosted)

\* image i of posted tag list e comes before image j of tag list f
Before(e, i, f, j) == e < f \/ (e = f /\ i < j)

\* the tag list popped in this step holds no image the scan may return
PopsTagWithout(types) ==
    /\ pc = "preroll"
    /\ Popped("Tag")
    /\ Positions(Head(bus).images, types) = {}
    /\ (bus' = <<>> \/ Head(bus') # Head(bus))

\* C2 as stated: when the images posted during preroll, taken over all tag
\* lists, contain a FrontCover, the selected cover is the first FrontCover of
\* that sequence.
C2_FirstFrontCoverOfPreroll ==
    (ReturnedCover /\ \E e \in 1..tagsPosted : Positions(PostedTags[e], {"FrontCover"}) # {}) =>
        /\ result.cover.type = "FrontCover"
        /\ \A e \in 1..tagsPosted : \A i \in Positions(PostedTags[e], {"FrontCover"}) :
              ~Before(e, i, result.cover.ev, result.cover.idx)

\* C2 amended: the cover is taken from the first tag list that holds any image
\* with caps classified FrontCover, Undefined or absent; when that list holds a
\* FrontCover the cover is its first FrontCover, whatever precedes it in the
\* list, and no image after it is inspected.  A FrontCover of a later tag list
\* is never reached.
C2_FirstFrontCoverOfList ==
    ReturnedCover =>
        LET images == source.tags[result.cover.ev]
            fronts == Positions(images, {"FrontCover"})
        IN  /\ result.cover.ev \in 1..tagsPosted
            /\ \A e \in 1..(result.cover.ev - 1) :
                  Positions(source.tags[e], Fallbacks \cup {"FrontCover"}) = {}
            /\ fronts # {} =>
                  /\ result.cover.type = "FrontCover"
                  /\ result.cover.idx \in fronts
                  /\ \A i \in fronts : result.cover.idx <= i
                  /\ result.cover.scanned = result.cover.idx

\* a FrontCover was selected behind an Undefined image of the same tag list
C2_FrontCoverBehindUndefined ==
    /\ ReturnedCover
    /\ result.cover.type = "FrontCover"
    /\ result.cover.idx = 2
    /\ source.tags[result.cover.ev][1] = "Undefined"

----------------------------------------------------------------------------
(* Video request on an audio-only source *)

AudioOnly ==
    /\ Len(source.streams) >= 1
    /\ \A i \in 1..Len(source.streams) : source.streams[i] = "audio"

\* C4 as stated: a video request on a source with only audio streams, which
\* delivered its pad-added events and did not fail in set-up or on an Error
\* message, ends with the wrong-stream-type error, whatever the order of its
\* pad-added, tag, streams-selected and async-done events.
C4_AudioOnlyFailsWrongType ==
    (/\ req = "video"
     /\ AudioOnly
     /\ padsAdded = Len(source.streams)
     /\ pc = "done"
     /\ result.err \notin {ErrBuild, ErrLive, ErrStateChange, ErrPreroll, ErrSeekPreroll}) =>
        result = Err(ErrWrongType("audio"))

----------------------------------------------------------------------------
(* Seek failures *)

\* C5 as stated, its first part: no frame is taken for a position whose seek
\* failed (the candidate is skipped).
C5_FailedSeekCandidateSkipped ==
    [][(pc = "pull" /\ ~lastSeek.ok) => Len(samples') = Len(samples)]_vars

\* C5 amended: a failed seek is only logged. The loop goes on to wait for
\* AsyncDone or Error without returning, the frame then pulled for that
\* position is kept as a candidate (the position is not skipped), and every
\* seek requests the position of the plan that is next in order.
C5_FailedSeekTolerated ==
    /\ [][(pc = "seek" /\ pc' # "seek") =>
            /\ pc' = "wait"
            /\ result' = Pending
            /\ nSeeks' = seekIdx
            /\ lastSeek'.pos = mul_div_ceil(duration, seek_at[seekIdx], 100)]_vars
    /\ [][(pc = "pull" /\ ~lastSeek.ok /\ pc' # "pull") =>
            \/ /\ Len(samples') = Len(samples) + 1
               /\ pc' = IF seekIdx = 5 THEN "select" ELSE "seek"
            \/ result' = Err(ErrPull)]_vars
    /\ [](ReturnedFrame => nSeeks = 5 /\ Len(samples) = 6)

\* a frame was returned by a request whose last seek failed, with a frame
\* pulled for each of the five positions
C5_ReturnedAfterFailedSeek ==
    /\ ReturnedFrame
    /\ ~lastSeek.ok
    /\ Len(samples) = 6

----------------------------------------------------------------------------
(* Failures of single candidates *)

\* C6 as stated: the request fails only when none of the candidates is usable,
\* so a failed pull does not fail it while a pulled frame is readable.
C6_FailsOnlyWithoutUsableFrame ==
    (pc = "done" /\ result.tag = "Err" /\ nPulls >= 1 /\ result.err # ErrSeekPreroll) =>
        Scored = {}

\* C6 amended: an unreadable frame is dropped before scoring, and once all six
\* frames were pulled the request returns a frame exactly if one of them is
\* readable (with none readable it panics); a failed pull, at position 0 or
\* after any seek, ends the request at once with the pull error, whatever was
\* pulled before.
C6_UnreadableDroppedPullFatal ==
    /\ (pc = "done" /\ Len(samples) = 6) =>
          /\ nPulls = 6
          /\ Scored # {} <=> result.tag = "VideoFrame"
          /\ Scored = {} <=> result.tag = "Panic"
          /\ result.tag = "VideoFrame" => result.frame \in Scored
    /\ (pc = "done" /\ nPulls > Len(samples)) =>
          /\ nPulls = Len(samples) + 1
          /\ result = Err(ErrPull)

\* a frame was returned although the preroll frame and another one were unreadable
C6_ReturnedDespiteUnreadable ==
    /\ ReturnedFrame
    /\ ~samples[1].readable
    /\ \E i \in 2..6 : ~samples[i].readable

\* C7 as stated: with no scored candidate the request ends with a typed error.
C7_EmptyScoredSetIsError ==
    (pc = "done" /\ Len(samples) = 6 /\ Scored = {}) => result.tag = "Err"

----------------------------------------------------------------------------
(* Cover art before frames *)

\* the tag list at the head of the bus is popped in this step
PopsTag ==
    /\ pc = "preroll"
    /\ Popped("Tag")
    /\ (bus' = <<>> \/ Head(bus') # Head(bus))

----------------------------------------------------------------------------
(* Release of the pipeline *)

\* C9: whenever a request has returned (cover art, frame, none or any error),
\* its pipeline was dropped and set to Null.
C9_PipelineReleased ==
    (pc = "done" /\ result.tag # "Panic") =>
        /\ result.tag \in {"CoverArt", "VideoFrame", "None", "Err"}
        /\ pipeline = [state |-> "Null", dropped |-> TRUE]

\* a request failed in the middle of the seek loop and released its pipeline
C9_ReleasedAfterSeekError ==
    /\ pc = "done"
    /\ result = Err(ErrSeekPreroll)
    /\ samples # <<>>
    /\ pipeline.state = "Null"

----------------------------------------------------------------------------
(* Seek plan *)

\* the plan C10 gives for the duration at hand
ExpectedPlan ==
    IF duration > 180 * SECOND THEN <<10, 15, 20, 25, 30>> ELSE <<10, 20, 30, 60, 90>>

\* C10: a duration above 180 s is sampled at 10, 15, 20, 25, 30 percent, a
\* duration of 180 s or less (0 when unknown) at 10, 20, 30, 60, 90 percent,
\* and the seeks are requested at these fractions in this order.
C10_SeekPlanChoice ==
    /\ [](pc \in {"pull0", "seek", "wait", "pull", "select"} => seek_at = ExpectedPlan)
    /\ [][nSeeks' = nSeeks + 1 =>
            lastSeek'.pos = mul_div_ceil(duration, ExpectedPlan[nSeeks + 1], 100)]_vars

\* a request with a duration of exactly 180 s sought all five positions of the
\* short plan
C10_ThresholdIsShort ==
    /\ duration = 180 * SECOND
    /\ seek_at = <<10, 20, 30, 60, 90>>
    /\ nSeeks = 5
    /\ lastSeek.pos = 162 * SECOND

----------------------------------------------------------------------------
(* Seek targets *)

\* the fraction (in percent) the latest seek was computed from
LastFraction == seek_at[nSeeks]

\* C11: every seek target is ceil(duration * f / 100) for its planned fraction
\* f, that is the least position p with 100 * p >= duration * f; it lies
\* between 0 and the duration; 200 s gives 20, 30, 40, 50, 60 s and 60 s gives
\* 6, 12, 18, 36, 54 s.
C11_SeekTargetIsCeiling ==
    nSeeks >= 1 =>
        /\ lastSeek.pos * 100 >= duration * LastFraction
        /\ (lastSeek.pos - 1) * 100 < duration * LastFraction
        /\ lastSeek.pos \in 0..duration
        /\ duration = 200 * SECOND =>
              lastSeek.pos = <<20, 30, 40, 50, 60>>[nSeeks] * SECOND
        /\ duration = 60 * SECOND =>
              lastSeek.pos = <<6, 12, 18, 36, 54>>[nSeeks] * SECOND

\* a seek target that is not a whole multiple of the time unit was rounded up
C11_TargetRoundedUp ==
    /\ nSeeks = 2
    /\ duration = LongVideoThreshold + 1
    /\ LastFraction = 15
    /\ lastSeek.pos * 100 > duration * LastFraction

----------------------------------------------------------------------------
(* Candidate list *)

\* C12: a video request that reaches scoring holds exactly six samples; the
\* first was pulled before any seek, and the k-th of the others was pulled
\* after the seek to the k-th position of the plan, so they stand in schedule
\* order.
C12_SixCandidates ==
    /\ []((pc = "select" \/ result.tag \in {"VideoFrame", "Panic"}) =>
            Len(samples) = 6 /\ nPulls = 6 /\ nSeeks = 5)
    /\ [][samples' # samples =>
            /\ Len(samples') = Len(samples) + 1
            /\ SubSeq(samples', 1, Len(samples)) = samples
            /\ nSeeks = Len(samples)
            /\ samples # <<>> =>
                  /\ pc = "pull"
                  /\ LastFraction = ExpectedPlan[Len(samples)]
                  /\ lastSeek.pos = mul_div_ceil(duration, ExpectedPlan[Len(samples)], 100)]_vars

\* six samples are at hand for scoring although the last seek failed
C12_SixAfterFailedSeek ==
    /\ pc = "select"
    /\ Len(samples) = 6
    /\ duration = 200 * SECOND
    /\ ~lastSeek.ok

----------------------------------------------------------------------------
(* Seek round trips *)

\* seeks issued whose frame pull has not been issued yet
Outstanding == IF nPulls = 0 THEN 0 ELSE nSeeks - (nPulls - 1)

\* the step that ends the wait for a seek
WaitEnds == pc = "wait" /\ pc' # "wait"

----------------------------------------------------------------------------
(* Thumbnail dimensions *)

RoundHalfUp(p, q) == (2 * p + q) \div (2 * q)

\* the dimensions C15 gives: scale 1 below the thumbnail size on both axes,
\* size / width when width >= height, size / height otherwise
ExactDimensions(width, height, size) ==
    IF width < size /\ height < size
    THEN [new_width |-> width, new_height |-> height]
    ELSE IF width >= height
    THEN [new_width |-> RoundHalfUp(width * size, width),
          new_height |-> RoundHalfUp(height * size, width)]
    ELSE [new_width |-> RoundHalfUp(width * size, height),
          new_height |-> RoundHalfUp(height * size, height)]

\* C15: scale_thumbnail_dimensions returns (round(width * scale),
\* round(height * scale)) with ties rounded up, for the scale C15 gives;
\* (3840, 2160, 256) gives (256, 144), (100, 50, 256) gives (100, 50) and
\* (256, 256, 256) gives (256, 256).
C15_RoundedTiesUp ==
    /\ scale_thumbnail_dimensions(3840, 2160, 256) = [new_width |-> 256, new_height |-> 144]
    /\ scale_thumbnail_dimensions(100, 50, 256) = [new_width |-> 100, new_height |-> 50]
    /\ scale_thumbnail_dimensions(256, 256, 256) = [new_width |-> 256, new_height |-> 256]
    /\ thumb.done =>
          LET exact == ExactDimensions(dims.width, dims.height, dims.thumbnail_size)
          IN  /\ thumb.new_width = exact.new_width
              /\ thumb.new_height = exact.new_height

----------------------------------------------------------------------------
(* Pixel buffers *)

\* the frame was scored
Scoring == pix.stage \in {"scored", "copied"}

\* positions of the padding bytes of a frame: offset width * 3 or beyond
\* within a row of stride bytes
PaddingPositions(f) == {i \in 1..Len(f.data) : (i - 1) % f.stride >= f.width * 3}

\* the effective bytes of a frame: the first width * 3 bytes of each of the
\* first height rows
EffectiveBytes(f) ==
    [i \in 1..(f.height * f.width * 3) |->
        f.data[((i - 1) \div (f.width * 3)) * f.stride + ((i - 1) % (f.width * 3)) + 1]]

\* C16: the buffer handed on has height * width * 3 bytes, its row r holds the
\* first width * 3 bytes of source row r, taken at offset r * stride, and no
\* padding byte of the source shows up in it.
C16_PaddingRemoved ==
    pix.stage = "copied" =>
        /\ Len(pix.buf) = frame.height * frame.width * 3
        /\ \A r \in 0..(frame.height - 1) : \A c \in 0..(frame.width * 3 - 1) :
              pix.buf[r * frame.width * 3 + c + 1] = frame.data[r * frame.stride + c + 1]
        /\ pix.buf = EffectiveBytes(frame)
        /\ (/\ \A i \in PaddingPositions(frame) : frame.data[i] = 128
            /\ \A i \in 1..Len(frame.data) \ PaddingPositions(frame) : frame.data[i] # 128)
           => \A j \in 1..Len(pix.buf) : pix.buf[j] # 128

\* two padded rows were copied without their padding bytes
C16_TwoPaddedRowsCopied ==
    /\ pix.stage = "copied"
    /\ frame.height = 2
    /\ frame.stride = frame.width * 3 + 1
    /\ frame.data = <<0, 255, 0, 128, 255, 0, 255, 128>>
    /\ pix.buf = <<0, 255, 0, 255, 0, 255>>

\* the population variance of a sequence of bytes, as a fraction
PopulationVariance(q) ==
    LET n == Len(q)
        sum == SumSeq(q)
        squares == SumSeq([i \in 1..n |-> q[i] * q[i]])
    IN  Ratio(n * squares - sum * sum, n * n)

\* the bytes alternate between 0 and 255
Alternating(q) ==
    \/ \A i \in 1..Len(q) : q[i] = IF i % 2 = 1 THEN 0 ELSE 255
    \/ \A i \in 1..Len(q) : q[i] = IF i % 2 = 1 THEN 255 ELSE 0

PaddingVariants(f) ==
    {[f EXCEPT !.data = [i \in 1..Len(f.data) |->
                            IF i \in PaddingPositions(f) THEN padding[i] ELSE f.data[i]]] :
        padding \in [PaddingPositions(f) -> Bytes]}

\* the score of a frame as the filter_map closure computes it
ScoreOf(f) == variance(f.data, f.width, f.stride, f.height)

\* a few frames of the layout of f to compare f with: flat, one byte set,
\* alternating
Rivals(f) ==
    {[f EXCEPT !.data = [i \in 1..Len(f.data) |-> 0]],
     [f EXCEPT !.data = [i \in 1..Len(f.data) |-> IF i = 1 THEN 128 ELSE 0]],
     [f EXCEPT !.data = [i \in 1..Len(f.data) |-> IF i % 2 = 1 THEN 0 ELSE 255]]}

\* the sum of squared differences a frame is scored by; frames of one
\* layout compare by it, their scores having the same denominator before
\* they are brought to lowest terms
SqDiffOf(f) == sq_diff(f.data, f.width, f.stride, f.height)

\* the position max_by selects among candidates with the given scores
BestOf(scores) == max_by([k \in 1..Len(scores) |-> [sample |-> k, var |-> scores[k]]])

\* C18: a frame that differs from the scored one in padding bytes only gets
\* the same score, and put in its place among the candidates it leaves the
\* selected position as it is.
C18_PaddingIgnored ==
    pix.stage = "scored" =>
        LET mine == SqDiffOf(frame)
            rivals == {SqDiffOf(rival) : rival \in Rivals(frame)}
        IN  \A other \in PaddingVariants(frame) :
                LET its == SqDiffOf(other)
                IN  /\ ScoreOf(other) = pix.var
                    /\ \A r \in rivals :
                          /\ BestOf(<<its, r>>) = BestOf(<<mine, r>>)
                          /\ BestOf(<<r, its>>) = BestOf(<<r, mine>>)

\* a frame was scored whose padding bytes would change a score taken over the
\* whole rows
C18_PaddingWouldMatter ==
    /\ pix.stage = "scored"
    /\ PaddingPositions(frame) # {}
    /\ pix.var # [num |-> 0, den |-> 1]
    /\ variance_whole_rows(frame.data, frame.width, frame.stride, frame.height) # pix.var

----------------------------------------------------------------------------
(* End-to-end selection *)

\* sample i was scored strictly higher than every other scored sample
UniqueBest(i) ==
    /\ i \in Scored
    /\ \A j \in Scored \ {i} : samples[j].var < samples[i].var

\* C19: when one of the six pulled samples has a strictly higher variance than
\* all the others, the request returns that sample as VideoFrame, at
\* whichever of the six positions it stands.
C19_UniqueBestReturned ==
    (pc = "done" /\ Len(samples) = 6 /\ nPulls = 6) =>
        \A i \in 1..6 : UniqueBest(i) => result = OkVideoFrame(i)

\* the preroll frame was returned, all five frames pulled after the seeks
\* being scored lower
C19_PrerollFrameBest ==
    /\ ReturnedFrame
    /\ result.frame = 1
    /\ Scored = 1..6
    /\ UniqueBest(1)

----------------------------------------------------------------------------
(* Live sources *)

\* C20: when set_state(Paused) answers NoPreroll, the audio and the video
\* request alike return the live-stream error at once, no message having been
\* popped from the bus, and no thumbnail source is produced.
C20_LiveSourceRejected ==
    /\ [](stateChange = "NoPreroll" =>
            /\ pc = "done"
            /\ result = Err(ErrLive)
            /\ tagsPosted = 0 /\ padsAdded = 0 /\ nSeeks = 0 /\ nPulls = 0)
    /\ [][(stateChange' = "NoPreroll" /\ stateChange # "NoPreroll") =>
            pc = "set_state" /\ bus = <<>> /\ result = Pending /\ pc' = "done"]_vars
    /\ [](result = Err(ErrLive) => stateChange = "NoPreroll")

\* an audio request was turned down for a live source
C20_AudioLiveRejected ==
    /\ req = "audio"
    /\ stateChange = "NoPreroll"
    /\ pc = "done"
    /\ result = Err(ErrLive)

----------------------------------------------------------------------------
(* Audio request without cover *)

\* the audio loop ends its scan: it pops AsyncDone, or timed_pop gives None
AudioScanEnds ==
    /\ req = "audio" /\ pc = "preroll" /\ pc' = "done"
    /\ \/ bus = <<>>
       \/ Head(bus).type = "AsyncDone"

\* no tag list posted so far holds an image get_thumbnail_from_tag accepts
NoAcceptableImage ==
    \A i \in 1..tagsPosted : get_thumbnail_from_tag(source.tags[i]).idx = 0

\* C21: an audio request whose tag scanning ends (AsyncDone popped, or the
\* message stream ended) returns Ok(None), and only when no tag list held an
\* acceptable image; main_audio_thumbnailer turns that into the error
\* "No tag image found" and leaves no output file; an audio request never
\* pulls a frame nor seeks.
C21_NoCoverFound ==
    /\ [][AudioScanEnds => result' = OkNone]_vars
    /\ [](req = "audio" /\ result = OkNone => NoAcceptableImage)
    /\ [](req = "audio" /\ result = OkNone /\ pc = "exit"
            => process = Returned("Err", ErrNoTagImage, "none"))
    /\ [](req = "audio" => nPulls = 0 /\ nSeeks = 0)

\* an audio request popped a tag list without acceptable image, then
\* AsyncDone, and its main returned the error
C21_AudioWithoutCover ==
    /\ req = "audio" /\ pc = "exit"
    /\ source.tags = << <<"Other">> >> /\ tagsPosted = 1
    /\ result = OkNone
    /\ process.returned = "Err"

----------------------------------------------------------------------------
(* Failures reach the caller *)

\* C22: when the process ends, main_*_thumbnailer has returned Ok(()) with
\* the output file written and exit code 0, or a typed error with a message
\* and a non-zero exit code; it never ends in a panic, a failure of
\* write_png (encoding, creating or writing the file) included.
C22_FailuresAreTypedErrors ==
    pc = "exit" =>
        /\ process.returned \in {"Ok", "Err"}
        /\ process.returned = "Ok" => exit_code(process) = 0 /\ process.output = "png"
        /\ process.returned = "Err" => exit_code(process) # 0 /\ process.err # ""

----------------------------------------------------------------------------
(* Link status shared with the pad-added closure *)

\* the control loop is about to process a StreamsSelected message
AtStreamsSelected == req = "video" /\ pc = "preroll" /\ Popped("StreamsSelected")

ChecksLinkStatus ==
    /\ AtStreamsSelected
    /\ pc' = "done" \/ bus' = Tail(bus)

\* what link_source answered for the pad added last, no pad being linked
LastRejection ==
    IF source.streams[padsAdded] = "video" THEN ErrLink
    ELSE ErrWrongType(source.streams[padsAdded])

\* C24: a StreamsSelected message processed before any pad-added callback
\* fails the request with "No pad added for source."; processed after pads
\* that were all rejected, it fails the request with the rejection of the
\* pad added last; the check leaves the status Ok, and once a check has
\* passed no later StreamsSelected message fails the request.
C24_StreamsSelectedCheck ==
    /\ [][ChecksLinkStatus /\ padsAdded = 0
            => pc' = "done" /\ result' = Err(ErrNoPad)]_vars
    /\ [][ChecksLinkStatus /\ padsAdded > 0 /\ linkedPad = 0
            => pc' = "done" /\ result' = Err(LastRejection)]_vars
    /\ [][ChecksLinkStatus => source_link_status' = "Ok"]_vars
    /\ [](linkChecked => source_link_status = "Ok")
    /\ [][ChecksLinkStatus /\ linkChecked => pc' = "preroll"]_vars

\* a video pad whose link failed, then an audio pad: the request failed
\* with the audio pad's rejection
C24_LastRejectionReported ==
    /\ req = "video" /\ pc = "done"
    /\ source.streams = <<"video", "audio">>
    /\ padsAdded = 2 /\ linkedPad = 0 /\ capsFrom = 1
    /\ result = Err(ErrWrongType("audio"))

\* C25: a video request that has pulled a frame or issued a seek has had its
\* link status checked, and found Ok, at a StreamsSelected message before.
C25_ExtractionAfterLinkCheck ==
    req = "video" /\ (nPulls > 0 \/ nSeeks > 0) => linkChecked

----------------------------------------------------------------------------
(* Termination *)

\* C26: a video request returns (a thumbnail source or an error), the source
\* completing its first preroll and every seek it accepted, and every frame
\* pull returning; runs in which the source rejects seeks included.
C26_VideoRequestTerminates == (req = "video") ~> (pc = "done")

----------------------------------------------------------------------------
(* Target size of the session *)

\* C27: the caps of the capsfilter are those computed from the stream of the
\* linked pad, and a pad-added callback for a pad that does not get linked
\* leaves them as they were.
C27_CapsOfLinkedPad ==
    /\ [](req = "video" /\ linkedPad # 0 => capsFrom = linkedPad)
    /\ [][padsAdded' # padsAdded /\ linkedPad' # padsAdded' => capsFrom' = capsFrom]_vars

\* C28: for a width, a height and a thumbnail size of at least 1 both
\* dimensions returned by scale_thumbnail_dimensions are at least 1.
C28_DimensionsAtLeastOne ==
    thumb.done => thumb.new_width >= 1 /\ thumb.new_height >= 1


====
